---- MODULE Spec2Model ----
(***************************************************************************)
(* The job orchestration core of the M3U8 downloader proxy.                *)
(*                                                                         *)
(* src/app.py      : /stream with progress tracking, /cancel, /progress    *)
(* src/app_fixed.py: /stream and /download without a progress registry     *)
(*                                                                         *)
(* The service runs on one asyncio event loop: a step of the model is the  *)
(* code a task runs between two suspension points (await), so every action *)
(* below is atomic exactly where the code has no await.  The external      *)
(* ffmpeg process is a separate OS process and takes its own steps.        *)
(***************************************************************************)
EXTENDS Integers, Sequences, FiniteSets, TLC

\* ------------------------------------------------------------- bounds
MaxJobs == 1          \* jobs started in one run
MaxTime == 2          \* ticks of the wall clock

\* ---------------------------------------------------------- constants
KiB == 1024           \* int(size_match.group(1)) * 1024
MiB == 1048576        \* 1024 * 1024
EtaFactor == 15       \* estimated_total = bytes_downloaded * 15

Ids == 1..MaxJobs
\* the ids a client may put in a request path: the last one is never issued
RequestIds == 1..(MaxJobs + 1)

None == "None"
Absent == "<absent>"

\* the source URLs a client sends
Urls == {"", "not-a-url", "http://a/v.m3u8", "https://a/v.m3u8"}

\* the lines ffmpeg prints on its progress pipe: a key and the digits that
\* follow it (-1: no digits follow the key)
Lines == { [key |-> "progress=", digits |-> -1],
           [key |-> "total_size=", digits |-> -1],
           [key |-> "total_size=", digits |-> 512],
           [key |-> "total_size=", digits |-> 2048] }
EOF == [key |-> "", digits |-> -1]

VARIABLES
  download_progress,  \* the global dict: download_id -> progress record
  dirs,               \* ids whose download_dir exists
  files,              \* ids whose output_file exists inside download_dir
  route,              \* the request handler serving each job
  pc,                 \* where each job's handler task is suspended
  ffmpeg_check,       \* outcome of the "ffmpeg -version" check of each job
  process,            \* the download process of each job
  returncode,         \* process.returncode (-1: None)
  progress_task,      \* the monitor_progress task of each job
  now,                \* time.time()
  rmtree_calls,       \* how often shutil.rmtree ran on each download_dir
  cancel_acked,       \* ids for which cancel_download returned 200
  resp                \* the HTTP response the last step sent, if any

vars == <<download_progress, dirs, files, route, pc, ffmpeg_check, process,
          returncode, progress_task, now, rmtree_calls, cancel_acked, resp>>

jobvars == <<download_progress, dirs, files, route, pc, ffmpeg_check, process,
             returncode, progress_task, rmtree_calls, cancel_acked>>

NoResp == [op |-> "none", id |-> 0, code |-> 0, body |-> None]

\* ------------------------------------------------------ pure functions

\* str.startswith
startswith(s, p) == Len(s) >= Len(p) /\ SubSeq(s, 1, Len(p)) = p

\* faulty variant: only the empty URL is refused
InvalidUrl_empty_only(url) == url = ""

\* not url or not url.startswith(('http://', 'https://'))
InvalidUrl(url) ==
  url = "" \/ ~(startswith(url, "http://") \/ startswith(url, "https://"))

\* the record download_m3u8_video_with_progress stores first
InitialProgress(t) ==
  [ status              |-> "initializing",
    progress_percent    |-> 0,
    segments_downloaded |-> 0,
    total_segments      |-> 0,
    download_speed      |-> "0 MB/s",
    eta                 |-> "calculating...",
    current_segment     |-> "",
    start_time          |-> t,
    bytes_downloaded    |-> 0,
    total_bytes         |-> 0,
    error               |-> None,
    speed               |-> Absent ]

\* "size=" in line, then re.search(r'size=\s*(\d+)', line): the sample in
\* bytes, or -1 when the line carries none
ParseSize(line) ==
  IF line.key \in {"size=", "total_size="} /\ line.digits >= 0
    THEN line.digits * KiB
    ELSE -1

TwoDigits(n) == IF n < 10 THEN "0" \o ToString(n) ELSE ToString(n)

\* f"{speed_mbps:.2f} MB/s" with speed_mbps = (bytes / elapsed) / (1024*1024);
\* bytes / 0 raises: the text "ZeroDivisionError" stands for the raise
SpeedText(bytes, elapsed) ==
  IF elapsed = 0 THEN "ZeroDivisionError" ELSE
  LET h == (2 * 100 * bytes + elapsed * MiB) \div (2 * elapsed * MiB)
  IN  ToString(h \div 100) \o "." \o TwoDigits(h % 100) \o " MB/s"

\* f"{eta_minutes}:{eta_secs:02d}"
EtaText(bytes, elapsed) ==
  LET estimated_total == bytes * EtaFactor
      remaining       == estimated_total - bytes
      eta_seconds     == (remaining * elapsed) \div bytes
  IN  ToString(eta_seconds \div 60) \o ":" \o TwoDigits(eta_seconds % 60)

\* faulty variant: the "if elapsed > 0" guard is lost
Sample_unguarded(rec, bytes, t) ==
  LET elapsed == t - rec.start_time
      r1 == [rec EXCEPT !.bytes_downloaded = bytes]
      r2 == [r1 EXCEPT !.speed = SpeedText(bytes, elapsed)]
  IN  IF bytes > MiB
        THEN [r2 EXCEPT !.eta = EtaText(bytes, elapsed)]
        ELSE r2

\* the body of monitor_progress's loop for one line carrying a sample
Sample(rec, bytes, t) ==
  LET elapsed == t - rec.start_time
      r1 == [rec EXCEPT !.bytes_downloaded = bytes]
      r2 == IF elapsed > 0 THEN [r1 EXCEPT !.speed = SpeedText(bytes, elapsed)]
                           ELSE r1
  IN  IF elapsed > 0 /\ bytes > MiB
        THEN [r2 EXCEPT !.eta = EtaText(bytes, elapsed)]
        ELSE r2

\* faulty variant: "if process.returncode and ..." (the comparison is lost)
Succeeded_truthy(rc, exists) == rc # 0 /\ exists

\* faulty variant: the existence of the output file is not checked
Succeeded_rc_only(rc, exists) == rc = 0

\* process.returncode == 0 and os.path.exists(output_file)
Succeeded(rc, exists) == rc = 0 /\ exists

\* faulty variant: only a completed download is refused
Cancellable_unless_completed(status) == status # "completed"

\* status in ["downloading", "initializing"]
Cancellable(status) == status \in {"downloading", "initializing"}

\* faulty variant: the status write is lost
CancelUpdate_keeps_status(rec) == rec

\* download_progress[download_id]["status"] = "cancelled"
CancelUpdate(rec) == [rec EXCEPT !.status = "cancelled"]

\* the JSON get_download_progress returns
ProgressBody(rec) ==
  [ status     |-> rec.status,
    percent    |-> rec.progress_percent,
    speed      |-> rec.download_speed,
    eta        |-> rec.eta,
    downloaded |-> rec.bytes_downloaded,
    error      |-> rec.error,
    can_cancel |-> rec.status \in {"downloading", "initializing"} ]

\* str(uuid.uuid4()): an id no earlier job has
issued == {i \in Ids : route[i] # "none"}
uuid4 == Cardinality(issued) + 1

SetStatus(dp, j, s) == [dp EXCEPT ![j].status = s]

\* ---------------------------------------------------------------- Init
Init ==
  /\ download_progress = <<>>
  /\ dirs = {}
  /\ files = {}
  /\ route = [j \in Ids |-> "none"]
  /\ pc = [j \in Ids |-> "idle"]
  /\ ffmpeg_check = [j \in Ids |-> "none"]
  /\ process = [j \in Ids |-> "none"]
  /\ returncode = [j \in Ids |-> -1]
  /\ progress_task = [j \in Ids |-> "none"]
  /\ now = 0
  /\ rmtree_calls = [j \in Ids |-> 0]
  /\ cancel_acked = {}
  /\ resp = NoResp

\* ------------------------------------------------------ app.py: /stream

\* faulty variant: the record is not stored before the first await
stream_download_video_unregistered(url) ==
  \/ /\ InvalidUrl(url)
     /\ resp' = [op |-> "stream", id |-> 0, code |-> 400, body |-> "Valid URL required"]
     /\ UNCHANGED <<jobvars, now>>
  \/ /\ ~InvalidUrl(url)
     /\ uuid4 \in Ids
     /\ LET j == uuid4 IN
          /\ route' = [route EXCEPT ![j] = "app"]
          /\ dirs' = dirs \cup {j}
          /\ pc' = [pc EXCEPT ![j] = "check"]
     /\ resp' = NoResp
     /\ UNCHANGED <<download_progress, files, ffmpeg_check, process, returncode,
                    progress_task, now, rmtree_calls, cancel_acked>>

\* stream_download_video up to the first await inside the runner
stream_download_video(url) ==
  \/ /\ InvalidUrl(url)
     /\ resp' = [op |-> "stream", id |-> 0, code |-> 400, body |-> "Valid URL required"]
     /\ UNCHANGED <<jobvars, now>>
  \/ /\ ~InvalidUrl(url)
     /\ uuid4 \in Ids
     /\ LET j == uuid4 IN
          /\ route' = [route EXCEPT ![j] = "app"]
          /\ dirs' = dirs \cup {j}
          /\ download_progress' = (j :> InitialProgress(now)) @@ download_progress
          /\ pc' = [pc EXCEPT ![j] = "check"]
     /\ resp' = NoResp
     /\ UNCHANGED <<files, ffmpeg_check, process, returncode, progress_task,
                    now, rmtree_calls, cancel_acked>>

\* the runner's "except Exception" and the handler's two rmtree calls after it:
\* the else branch removes the directory and raises HTTPException, which the
\* handler's own "except Exception" catches, removes again and re-raises
runner_error(j, where, message) ==
  /\ download_progress' = SetStatus(download_progress, j, "error")
  /\ dirs' = dirs \ {j}
  /\ files' = files \ {j}
  /\ rmtree_calls' = [rmtree_calls EXCEPT ![j] = @ + 2]
  /\ pc' = [pc EXCEPT ![j] = where]
  /\ resp' = [op |-> "stream", id |-> j, code |-> 500, body |-> message]

\* the availability check returns: "ok", "nonzero" or "notfound"
\* (the inner try of app.py has no handler: FileNotFoundError reaches the
\* outer except)
ffmpeg_check_done(j, outcome) ==
  /\ route[j] = "app" /\ pc[j] = "check"
  /\ ffmpeg_check' = [ffmpeg_check EXCEPT ![j] = outcome]
  /\ \/ /\ outcome = "ok"
        /\ pc' = [pc EXCEPT ![j] = "spawn"]
        /\ resp' = NoResp
        /\ UNCHANGED <<download_progress, dirs, files, rmtree_calls>>
     \/ /\ outcome = "nonzero"
        /\ download_progress' =
             [download_progress EXCEPT
                ![j].status = "error",
                ![j].error = "FFmpeg is not available in the system"]
        /\ pc' = [pc EXCEPT ![j] = "spawn"]
        /\ resp' = NoResp
        /\ UNCHANGED <<dirs, files, rmtree_calls>>
     \/ /\ outcome = "notfound"
        /\ runner_error(j, "raised", "No such file or directory: 'ffmpeg'")
  /\ UNCHANGED <<route, process, returncode, progress_task, now, cancel_acked>>

\* create_subprocess_exec(*cmd) returns or raises
process_spawned(j, ok) ==
  /\ route[j] = "app" /\ pc[j] = "spawn"
  /\ \/ /\ ok
        /\ process' = [process EXCEPT ![j] = "running"]
        /\ progress_task' = [progress_task EXCEPT ![j] = "running"]
        /\ pc' = [pc EXCEPT ![j] = "communicate"]
        /\ resp' = NoResp
        /\ UNCHANGED <<download_progress, dirs, files, rmtree_calls>>
     \/ /\ ~ok
        /\ runner_error(j, "raised", "spawn failed")
        /\ UNCHANGED <<process, progress_task>>
  /\ UNCHANGED <<route, ffmpeg_check, returncode, now, cancel_acked>>

\* faulty variant: the loop body is suspended after the counter is stored
monitor_progress_torn(j, line) ==
  /\ progress_task[j] = "running"
  /\ \/ /\ line = EOF
        /\ process[j] = "exited"
        /\ progress_task' = [progress_task EXCEPT ![j] = "finished"]
        /\ UNCHANGED download_progress
     \/ /\ line \in Lines
        /\ download_progress' =
             IF ParseSize(line) >= 0
               THEN [download_progress EXCEPT
                       ![j].bytes_downloaded = ParseSize(line)]
               ELSE download_progress
        /\ UNCHANGED progress_task
  /\ resp' = NoResp
  /\ UNCHANGED <<dirs, files, route, pc, ffmpeg_check, process, returncode,
                 now, rmtree_calls, cancel_acked>>

\* one iteration of monitor_progress's loop
monitor_progress(j, line) ==
  /\ progress_task[j] = "running"
  /\ \/ /\ line = EOF
        /\ process[j] = "exited"
        /\ progress_task' = [progress_task EXCEPT ![j] = "finished"]
        /\ UNCHANGED download_progress
     \/ /\ line \in Lines
        /\ download_progress' =
             IF ParseSize(line) >= 0
               THEN [download_progress EXCEPT
                       ![j] = Sample(@, ParseSize(line), now)]
               ELSE download_progress
        /\ UNCHANGED progress_task
  /\ resp' = NoResp
  /\ UNCHANGED <<dirs, files, route, pc, ffmpeg_check, process, returncode,
                 now, rmtree_calls, cancel_acked>>

\* process.communicate() returns after the process has exited
communicate_returns(j) ==
  /\ route[j] = "app" /\ pc[j] = "communicate"
  /\ process[j] = "exited"
  /\ progress_task' = [progress_task EXCEPT
                         ![j] = IF @ = "running" THEN "cancelled" ELSE @]
  /\ IF Succeeded(returncode[j], j \in files)
       THEN /\ download_progress' = SetStatus(download_progress, j, "completed")
            /\ pc' = [pc EXCEPT ![j] = "returned_success"]
            /\ resp' = [op |-> "stream", id |-> j, code |-> 200, body |-> "video.mp4"]
            /\ UNCHANGED <<dirs, files, rmtree_calls>>
       ELSE runner_error(j, "returned_error", "Download failed")
  /\ UNCHANGED <<route, ffmpeg_check, process, returncode, now, cancel_acked>>

\* process.communicate() raises (asyncio refuses a second reader of the
\* stream monitor_progress is reading): the process and the monitor live on
communicate_raises(j) ==
  /\ route[j] = "app" /\ pc[j] = "communicate"
  /\ runner_error(j, "raised", "read() called while another coroutine is waiting")
  /\ UNCHANGED <<route, ffmpeg_check, process, returncode, progress_task,
                 now, cancel_acked>>

\* ------------------------------------------------ app.py: /cancel, /progress
cancel_download(id) ==
  /\ \/ /\ id \notin DOMAIN download_progress
        /\ resp' = [op |-> "cancel", id |-> id, code |-> 404, body |-> "Download ID not found"]
        /\ UNCHANGED <<download_progress, dirs, files, rmtree_calls, cancel_acked>>
     \/ /\ id \in DOMAIN download_progress
        /\ ~Cancellable(download_progress[id].status)
        /\ resp' = [op |-> "cancel", id |-> id, code |-> 400,
                    body |-> "Download cannot be cancelled in current state"]
        /\ UNCHANGED <<download_progress, dirs, files, rmtree_calls, cancel_acked>>
     \/ /\ id \in DOMAIN download_progress
        /\ Cancellable(download_progress[id].status)
        /\ download_progress' = [download_progress EXCEPT ![id] = CancelUpdate(@)]
        /\ IF id \in dirs
             THEN /\ dirs' = dirs \ {id}
                  /\ files' = files \ {id}
                  /\ rmtree_calls' = [rmtree_calls EXCEPT ![id] = @ + 1]
             ELSE UNCHANGED <<dirs, files, rmtree_calls>>
        /\ cancel_acked' = cancel_acked \cup {id}
        /\ resp' = [op |-> "cancel", id |-> id, code |-> 200, body |-> "cancelled"]
  /\ UNCHANGED <<route, pc, ffmpeg_check, process, returncode, progress_task, now>>

\* faulty variant: the lookup creates the record it does not find
get_download_progress_setdefault(id) ==
  /\ download_progress' =
       IF id \notin DOMAIN download_progress
         THEN (id :> InitialProgress(now)) @@ download_progress
         ELSE download_progress
  /\ resp' = [op |-> "progress", id |-> id, code |-> 200,
              body |-> ProgressBody(download_progress'[id])]
  /\ UNCHANGED <<dirs, files, route, pc, ffmpeg_check, process, returncode,
                 progress_task, now, rmtree_calls, cancel_acked>>

get_download_progress(id) ==
  /\ IF id \notin DOMAIN download_progress
       THEN resp' = [op |-> "progress", id |-> id, code |-> 404,
                     body |-> "Download ID not found or not started"]
       ELSE resp' = [op |-> "progress", id |-> id, code |-> 200,
                     body |-> ProgressBody(download_progress[id])]
  /\ UNCHANGED <<jobvars, now>>

\* --------------------------------------------------------- app_fixed.py

\* the handler's error branch of app_fixed.py: rmtree, raise, rmtree, raise
fixed_error(j, message) ==
  /\ dirs' = dirs \ {j}
  /\ files' = files \ {j}
  /\ rmtree_calls' = [rmtree_calls EXCEPT ![j] = @ + 2]
  /\ pc' = [pc EXCEPT ![j] = "returned_error"]
  /\ resp' = [op |-> route[j], id |-> j, code |-> 500, body |-> message]

\* stream_download_video / download_video of app_fixed.py up to the first await
fixed_start(url, r) ==
  \/ /\ InvalidUrl(url)
     /\ resp' = [op |-> r, id |-> 0, code |-> 400,
                 body |-> IF url = "" THEN "URL parameter is required"
                                      ELSE "Invalid URL format"]
     /\ UNCHANGED <<jobvars, now>>
  \/ /\ ~InvalidUrl(url)
     /\ uuid4 \in Ids
     /\ LET j == uuid4 IN
          /\ route' = [route EXCEPT ![j] = r]
          /\ dirs' = dirs \cup {j}
          /\ pc' = [pc EXCEPT ![j] = "check"]
     /\ resp' = NoResp
     /\ UNCHANGED <<download_progress, files, ffmpeg_check, process, returncode,
                    progress_task, now, rmtree_calls, cancel_acked>>

fixed_check_done(j, outcome) ==
  /\ route[j] \in {"fixed_stream", "fixed_download"} /\ pc[j] = "check"
  /\ ffmpeg_check' = [ffmpeg_check EXCEPT ![j] = outcome]
  /\ \/ /\ outcome = "ok"
        /\ pc' = [pc EXCEPT ![j] = "spawn"]
        /\ resp' = NoResp
        /\ UNCHANGED <<dirs, files, rmtree_calls>>
     \/ /\ outcome = "nonzero"
        /\ fixed_error(j, "FFmpeg is not available in the system")
     \/ /\ outcome = "notfound"
        /\ fixed_error(j, "FFmpeg is not installed")
  /\ UNCHANGED <<download_progress, route, process, returncode, progress_task,
                 now, cancel_acked>>

fixed_spawned(j, ok) ==
  /\ route[j] \in {"fixed_stream", "fixed_download"} /\ pc[j] = "spawn"
  /\ \/ /\ ok
        /\ process' = [process EXCEPT ![j] = "running"]
        /\ pc' = [pc EXCEPT ![j] = "communicate"]
        /\ resp' = NoResp
        /\ UNCHANGED <<dirs, files, rmtree_calls>>
     \/ /\ ~ok
        /\ fixed_error(j, "Exception occurred: spawn failed")
        /\ UNCHANGED process
  /\ UNCHANGED <<download_progress, route, ffmpeg_check, returncode,
                 progress_task, now, cancel_acked>>

fixed_communicate_returns(j) ==
  /\ route[j] \in {"fixed_stream", "fixed_download"} /\ pc[j] = "communicate"
  /\ process[j] = "exited"
  /\ IF Succeeded(returncode[j], j \in files)
       THEN /\ pc' = [pc EXCEPT ![j] = "returned_success"]
            /\ resp' = [op |-> route[j], id |-> j, code |-> 200, body |-> "video.mp4"]
            /\ UNCHANGED <<dirs, files, rmtree_calls>>
       ELSE fixed_error(j, "Download failed: Unknown error")
  /\ UNCHANGED <<download_progress, route, ffmpeg_check, process, returncode,
                 progress_task, now, cancel_acked>>

\* ------------------------------------------- the external ffmpeg process

\* ffmpeg creates the output file: only inside a directory that exists
ffmpeg_writes(j) ==
  /\ process[j] = "running"
  /\ j \in dirs /\ j \notin files
  /\ files' = files \cup {j}
  /\ resp' = NoResp
  /\ UNCHANGED <<download_progress, dirs, route, pc, ffmpeg_check, process,
                 returncode, progress_task, now, rmtree_calls, cancel_acked>>

\* ffmpeg exits on its own with code rc
ffmpeg_exits(j, rc) ==
  /\ process[j] = "running"
  /\ process' = [process EXCEPT ![j] = "exited"]
  /\ returncode' = [returncode EXCEPT ![j] = rc]
  /\ resp' = NoResp
  /\ UNCHANGED <<download_progress, dirs, files, route, pc, ffmpeg_check,
                 progress_task, now, rmtree_calls, cancel_acked>>

\* the wall clock advances
Tick ==
  /\ now < MaxTime
  /\ now' = now + 1
  /\ resp' = NoResp
  /\ UNCHANGED jobvars

\* ---------------------------------------------------------------- Next
Next ==
  \/ \E url \in Urls : stream_download_video(url)
  \/ \E j \in Ids : \E o \in {"ok", "nonzero", "notfound"} : ffmpeg_check_done(j, o)
  \/ \E j \in Ids : \E ok \in BOOLEAN : process_spawned(j, ok)
  \/ \E j \in Ids : \E line \in Lines \cup {EOF} : monitor_progress(j, line)
  \/ \E j \in Ids : communicate_returns(j)
  \/ \E j \in Ids : communicate_raises(j)
  \/ \E id \in RequestIds : cancel_download(id)
  \/ \E id \in RequestIds : get_download_progress(id)
  \/ \E url \in Urls : \E r \in {"fixed_stream", "fixed_download"} : fixed_start(url, r)
  \/ \E j \in Ids : \E o \in {"ok", "nonzero", "notfound"} : fixed_check_done(j, o)
  \/ \E j \in Ids : \E ok \in BOOLEAN : fixed_spawned(j, ok)
  \/ \E j \in Ids : fixed_communicate_returns(j)
  \/ \E j \in Ids : ffmpeg_writes(j)
  \/ \E j \in Ids : \E rc \in {0, 1} : ffmpeg_exits(j, rc)
  \/ Tick

Spec == Init /\ [][Next]_vars

\* the runner and its handler resume when what they await is ready; the check
\* process ("ffmpeg -version") ends and a spawn returns or raises.  Nothing
\* makes the download process exit, a client send a request or communicate()
\* raise.
Fairness ==
  \A j \in Ids :
    /\ WF_vars(\E o \in {"ok", "nonzero", "notfound"} : ffmpeg_check_done(j, o))
    /\ WF_vars(\E ok \in BOOLEAN : process_spawned(j, ok))
    /\ WF_vars(communicate_returns(j))
    /\ WF_vars(\E o \in {"ok", "nonzero", "notfound"} : fixed_check_done(j, o))
    /\ WF_vars(\E ok \in BOOLEAN : fixed_spawned(j, ok))
    /\ WF_vars(fixed_communicate_returns(j))

FairSpec == Spec /\ Fairness

\* ------------------------------------------------------------ properties

Terminal == {"completed", "error", "cancelled"}
Registered == DOMAIN download_progress
Status(j) == download_progress[j].status

TypeOK ==
  /\ Registered \subseteq Ids
  /\ \A j \in Registered :
       Status(j) \in {"initializing", "completed", "error", "cancelled"}
  /\ dirs \subseteq Ids /\ files \subseteq dirs
  /\ now \in 0..MaxTime

\* C1: once a record's status is completed, error or cancelled, no step of any
\* task changes it (the first terminal transition wins).
C1_TerminalAbsorbing ==
  [][\A j \in Registered :
       Status(j) \in Terminal => download_progress'[j].status = Status(j)]_vars

\* C2: a job's working directory exists as long as its external process has
\* been spawned and has not exited.
C2_DirWhileProcessRuns ==
  \A j \in Ids : process[j] = "running" => j \in dirs

\* C3: after a successful cancel of a job whose process is running, the
\* process eventually stops running and the working directory is eventually
\* absent.
C3_CancelTerminatesProcess ==
  \A j \in Ids :
    /\ (j \in cancel_acked /\ process[j] = "running") ~> (process[j] # "running")
    /\ (j \in cancel_acked /\ process[j] = "running") ~> (j \notin dirs)

\* C4: once cancel_download has returned 200 for an id, the record's status is
\* terminal in every later state, and so is the status of every /progress
\* response for that id (which also reports can_cancel false).
C4_NoRunningAfterCancel ==
  \A j \in cancel_acked :
    /\ Status(j) \in Terminal
    /\ (resp.op = "progress" /\ resp.id = j /\ resp.code = 200)
         => (resp.body.status \in Terminal /\ ~resp.body.can_cancel)

\* a /progress response for a cancelled job whose process is still running
C4_Witness ==
  \E j \in cancel_acked :
    /\ process[j] = "running"
    /\ resp.op = "progress" /\ resp.id = j /\ resp.code = 200

\* C5: a cancel on a record whose status is terminal answers 400 and changes
\* nothing: record, registry, directories, files, processes and tasks.
C5_CancelTerminalNoEffect ==
  [][\A id \in RequestIds :
       ( /\ resp'.op = "cancel" /\ resp'.id = id
         /\ id \in Registered
         /\ Status(id) \in Terminal )
       => (resp'.code = 400 /\ UNCHANGED <<jobvars, now>>)]_vars

\* a cancel refused on an already cancelled job whose process still runs
C5_Witness ==
  /\ resp.op = "cancel" /\ resp.code = 400
  /\ resp.id \in cancel_acked
  /\ process[resp.id] = "running"

\* C6: /progress and /cancel on an id that is not registered answer 404 and
\* change neither the registry nor the filesystem.
C6_UnknownIdNotFound ==
  [][\A id \in RequestIds :
       ( /\ resp'.op \in {"cancel", "progress"} /\ resp'.id = id
         /\ id \notin Registered )
       => (resp'.code = 404 /\ UNCHANGED <<jobvars, now>>)]_vars

\* a cancel answered 404 for an id whose directory exists (a job of the
\* registry-less routes): the directory is still there
C6_Witness ==
  /\ resp.op = "cancel" /\ resp.code = 404
  /\ resp.id \in dirs
  /\ resp.id \notin Registered

\* C7: when the runner resumes from communicate() with return code 0 and the
\* output file present, the job becomes completed, the response hands out the
\* file, and neither the directory nor the file is removed.
C7_SuccessKeepsArtifact ==
  [][\A j \in Ids :
       ( /\ pc[j] = "communicate" /\ pc'[j] \notin {"communicate", "raised"}
         /\ returncode[j] = 0 /\ j \in files )
       => ( /\ pc'[j] = "returned_success"
            /\ resp'.code = 200 /\ resp'.id = j /\ resp'.body = "video.mp4"
            /\ j \in dirs' /\ j \in files'
            /\ rmtree_calls'[j] = rmtree_calls[j]
            /\ (route[j] = "app" => download_progress'[j].status = "completed") )]_vars

\* a completed job of app.py whose directory and output file exist
C7_Witness ==
  \E j \in Registered :
    /\ pc[j] = "returned_success" /\ Status(j) = "completed"
    /\ j \in files /\ resp.code = 200 /\ resp.op = "stream"

\* C8: a job whose process exit the runner handled as a failure is failed, its
\* directory is gone, and its record (and every /progress response for it)
\* carries a non-empty error message.
C8_FailedHasError ==
  \A j \in Registered :
    pc[j] = "returned_error"
      => /\ Status(j) = "error"
         /\ j \notin dirs
         /\ download_progress[j].error \notin {None, ""}
         /\ (resp.op = "progress" /\ resp.id = j /\ resp.code = 200)
              => resp.body.error \notin {None, ""}

\* C9: a job whose availability check failed never has a download process;
\* once its handler is done it is failed and its directory is gone.
C9_NoSpawnWithoutTool ==
  \A j \in Ids :
    ffmpeg_check[j] \in {"nonzero", "notfound"}
      => /\ process[j] = "none"
         /\ (j \in Registered => Status(j) = "error")
         /\ (pc[j] \in {"returned_error", "raised"} => j \notin dirs)

\* C10: every started job eventually reaches a terminal state.
C10_EveryJobTerminates ==
  \A j \in Ids :
    (route[j] # "none")
      ~> (pc[j] \in {"returned_success", "returned_error", "raised"}
          /\ (j \in Registered => Status(j) \in Terminal))

\* C11: while the download process is spawned and has not exited and no cancel
\* has succeeded, the record's status (and every /progress response) is the
\* running status, not initializing.
C11_RunningWhileProcessRuns ==
  \A j \in Registered :
    (process[j] = "running" /\ j \notin cancel_acked)
      => /\ Status(j) \in {"running", "downloading"}
         /\ (resp.op = "progress" /\ resp.id = j /\ resp.code = 200)
              => resp.body.status \in {"running", "downloading"}

\* the URLs of the request set that are absolute http:// or https:// URLs
WellFormedUrls == {"http://a/v.m3u8", "https://a/v.m3u8"}

C14_BytesNeverDecrease ==
  [][\A j \in Registered :
       download_progress'[j].bytes_downloaded
         >= download_progress[j].bytes_downloaded]_vars

\* C15: once the monitor has computed a throughput for a job, every /progress
\* response for that job reports that throughput.
C15_StatusReportsThroughput ==
  \A j \in Registered :
    ( /\ resp.op = "progress" /\ resp.id = j /\ resp.code = 200
      /\ download_progress[j].speed # Absent )
    => resp.body.speed = download_progress[j].speed

\* C16: the stored throughput is never the result of a division by zero and
\* never negative; a sample taken at elapsed 0 leaves throughput and eta as
\* they were; eta keeps its placeholder until a sample taken after the start
\* has been processed.
C16_RateEstimatorGuards ==
  /\ [](\A j \in Registered :
          LET rec == download_progress[j] IN
            /\ rec.speed # "ZeroDivisionError"
            /\ rec.speed # Absent => SubSeq(rec.speed, 1, 1) # "-"
            /\ rec.eta # "calculating..." => rec.speed # Absent)
  /\ [][\A j \in Registered :
          now = download_progress[j].start_time
            => /\ download_progress'[j].speed = download_progress[j].speed
               /\ download_progress'[j].eta = download_progress[j].eta]_vars

\* a sample was processed at elapsed 0: the counter moved, throughput and eta
\* did not
C16_Witness ==
  \E j \in Registered :
    /\ download_progress[j].bytes_downloaded > MiB
    /\ now = download_progress[j].start_time
    /\ download_progress[j].speed = Absent
    /\ download_progress[j].eta = "calculating..."

\* C17: the working directory of a job is removed at most once, and exactly
\* once when the job's handler has ended in failure or the job was cancelled
\* and its runner has ended.
C17_RemovedExactlyOnce ==
  \A j \in Ids :
    /\ rmtree_calls[j] <= 1
    /\ ( \/ pc[j] \in {"returned_error", "raised"}
         \/ (j \in cancel_acked /\ pc[j] = "returned_success") )
       => rmtree_calls[j] = 1

\* C18: a record with status completed has its working directory and its
\* output file, in every reachable state; a cancel on it is refused.
C18_CompletedHasOutput ==
  \A j \in Registered :
    Status(j) = "completed"
      => /\ j \in dirs
         /\ j \in files
         /\ (resp.op = "cancel" /\ resp.id = j) => resp.code = 400

\* a completed job whose cancel was just refused still has its file
C18_Witness ==
  \E j \in Registered :
    /\ Status(j) = "completed"
    /\ resp.op = "cancel" /\ resp.id = j /\ resp.code = 400
    /\ j \in files

\* C19: once a record's status is cancelled, no step changes its
\* bytes_downloaded, speed or eta.
C19_CancelStopsMonitor ==
  [][\A j \in Registered :
       Status(j) = "cancelled"
         => /\ download_progress'[j].bytes_downloaded
                 = download_progress[j].bytes_downloaded
            /\ download_progress'[j].speed = download_progress[j].speed
            /\ download_progress'[j].eta = download_progress[j].eta]_vars

C21_CancelPreventsSpawn ==
  [][\A j \in Ids :
       (process[j] # "running" /\ process'[j] = "running")
         => (j \notin cancel_acked /\ j \in dirs)]_vars

====
